---- MODULE Spec2Model ----
(***************************************************************************)
(* RVDB accession-to-taxonomy join-and-rewrite pipeline                    *)
(* (scripts/other_scripts/database_scripts/rvdb_map_taxonomy.py).          *)
(*                                                                         *)
(* Text is modelled at character level: a line is a sequence of one-       *)
(* character strings, its terminator included, so that strip() and split() *)
(* are computed the way Python computes them.  Files are read one line per *)
(* step; the lines already consumed are kept in mapRead / fastaRead.       *)
(* Output files are the sequences of chunks handed to write().             *)
(* Progress and warning messages (quiet flag) change no state that the     *)
(* pipeline reads back and are left out.                                   *)
(***************************************************************************)
EXTENDS Integers, Sequences, FiniteSets, TLC

VARIABLES pc, exit_status, mapRead, mapping_dict, fastaRead, fout, tab,
          missing_ids, missing_file, missing_path

vars == <<pc, exit_status, mapRead, mapping_dict, fastaRead, fout, tab,
          missing_ids, missing_file, missing_path>>

\* ---------------------------------------------------------------- bounds
MaxMapLines == 3
MaxFastaLines == 3

\* ------------------------------------------------------------ characters
TAB == "\t"
NL == "\n"
SP == " "
GT == ">"
PIPE == "|"

Whitespace == {SP, TAB, NL}

\* ------------------------------------------------- Python string helpers
RECURSIVE LStrip(_)
LStrip(s) ==
    IF s # <<>> /\ Head(s) \in Whitespace THEN LStrip(Tail(s)) ELSE s

RECURSIVE RStrip(_)
RStrip(s) ==
    IF s # <<>> /\ s[Len(s)] \in Whitespace
    THEN RStrip(SubSeq(s, 1, Len(s) - 1))
    ELSE s

\* str.strip(): removes leading and trailing whitespace
Strip(s) == LStrip(RStrip(s))

\* str.split(sep): always at least one field, empty fields are kept
RECURSIVE SplitAcc(_, _, _, _)
SplitAcc(s, sep, cur, acc) ==
    IF s = <<>> THEN Append(acc, cur)
    ELSE IF Head(s) = sep THEN SplitAcc(Tail(s), sep, <<>>, Append(acc, cur))
    ELSE SplitAcc(Tail(s), sep, Append(cur, Head(s)), acc)

Split(s, sep) == SplitAcc(s, sep, <<>>, <<>>)

\* sep.join(parts)
RECURSIVE Join(_, _)
Join(parts, sep) ==
    IF parts = <<>> THEN <<>>
    ELSE IF Len(parts) = 1 THEN parts[1]
    ELSE parts[1] \o <<sep>> \o Join(Tail(parts), sep)

\* s[1:]
Drop1(s) == IF s = <<>> THEN <<>> ELSE Tail(s)

StartsWith(s, c) == s # <<>> /\ Head(s) = c

Range(s) == {s[i] : i \in DOMAIN s}

\* ------------------------------------------------------------ input sets
A1 == <<"A", "1">>
A2 == <<"A", "2">>
AS == <<"A", " ", "3">>
K1 == <<"K", "1">>
K2 == <<"K", "2">>
K3 == <<"K", "3">>
T1 == <<"7">>
T2 == <<"8">>
G1 == <<"5">>
G2 == <<"6">>
XX == <<"x">>

MapRow(fields) == Join(fields, TAB) \o <<NL>>

\* lines a mapping file may hold
MapLines ==
    { MapRow(<<A1, K1, T1, G1>>),                     \* well-formed
      MapRow(<<A2, K1, T2, G2>>),                     \* same key, other entry
      MapRow(<<A2, K2, T2, G1>>),                     \* second key
      MapRow(<<AS, K2, T1, G2>>),                     \* accession with a blank
      <<SP>> \o Join(<<A1, K2, T1, G2>>, TAB) \o <<SP, NL>>,  \* padded row
      MapRow(<<A1, K1, T1>>),                         \* 3 fields
      MapRow(<<A1, K1, T1, <<>> >>),                  \* empty last field
      MapRow(<<A1, K1, T1, G1, XX>>),                 \* 5 fields
      <<NL>> }                                        \* blank line

FastaHeader(fields) == <<GT>> \o Join(fields, PIPE) \o <<NL>>

\* lines a FASTA file may hold
FastaLines ==
    { FastaHeader(<<XX, XX, K1, XX>>),
      FastaHeader(<<XX, XX, K2>>),
      FastaHeader(<<XX, XX, K3, XX>>),                \* key in no mapping row
      FastaHeader(<<XX, K1>>),                        \* 2 fields
      <<GT, NL>>,                                     \* empty header
      <<"M", "K", NL>>,                               \* body line
      <<SP, "V", SP, NL>> }                           \* body line with blanks

\* ------------------------------------------------------ build_mapping_dict
EmptyDict == [k \in {} |-> <<>>]

\* defaultdict(lambda: ('', '', ''))
DefaultValue == << <<>>, <<>>, <<>> >>

MappingFields(line) == Split(Strip(line), TAB)

IsMalformedRow(fields) == Len(fields) < 4

\* acc, acc_version, taxid, gi = fields   raises ValueError unless 4 fields
UnpackFails(fields) == Len(fields) # 4

DictSet(d, k, v) == [x \in (DOMAIN d) \cup {k} |-> IF x = k THEN v ELSE d[x]]

StoreKeepFirst(d, fields) ==
    IF fields[2] \in DOMAIN d THEN d
    ELSE DictSet(d, fields[2], <<fields[1], fields[3], fields[4]>>)

\* mapping_dict[acc_version] = (acc, taxid, gi)
StoreEntry(d, fields) ==
    DictSet(d, fields[2], <<fields[1], fields[3], fields[4]>>)

\* ------------------------------------------------------ process_rvdb_fasta
TableHeader ==
    <<"a","c","c","e","s","s","i","o","n", TAB,
      "a","c","c","e","s","s","i","o","n",".","v","e","r","s","i","o","n", TAB,
      "t","a","x","i","d", TAB, "g","i", NL>>

IsHeaderLine(line) == StartsWith(line, GT)

HeaderOf(line) == Drop1(Strip(line))

HeaderFields(header) == Split(header, PIPE)

NotExtractableOffByOne(fields) == Len(fields) < 4

\* if len(fields) < 3: ... continue
NotExtractable(fields) == Len(fields) < 3

\* mapping_dict[key] on a defaultdict: a missing key is inserted
DictGetItem(d, k) ==
    IF k \in DOMAIN d THEN [value |-> d[k], dict |-> d]
    ELSE [value |-> DefaultValue, dict |-> DictSet(d, k, DefaultValue)]

LookupByIndexing(d, k) ==
    LET r == DictGetItem(d, k)
    IN  [found |-> r.value[1] # <<>>, value |-> r.value, dict |-> r.dict]

\* if p_acc in mapping_dict: acc, taxid, gi = mapping_dict[p_acc]
Lookup(d, k) ==
    IF k \in DOMAIN d
    THEN LET r == DictGetItem(d, k)
         IN  [found |-> TRUE, value |-> r.value, dict |-> r.dict]
    ELSE [found |-> FALSE, value |-> DefaultValue, dict |-> d]

RenamedHeaderNoAcc(acc, header) == <<GT>> \o header \o <<NL>>

\* f">{acc} {header}\n"
RenamedHeader(acc, header) == <<GT>> \o acc \o <<SP>> \o header \o <<NL>>

\* f"{acc}\t{p_acc}\t{taxid}\t{gi}\n"
TableRow(acc, p_acc, taxid, gi) == Join(<<acc, p_acc, taxid, gi>>, TAB) \o <<NL>>

SkippedHeaderPassThrough(line) == <<line>>

\* the chunks written for a header with fewer than 3 fields: none (continue)
SkippedHeaderOut(line) == <<>>

RecordMissBareKey(ids, header) == Append(ids, HeaderFields(header)[1])

RecordMissFirst(ids, header) == <<header>> \o ids

\* missing_ids.append(header)
RecordMiss(ids, header) == Append(ids, header)

BodyChunkStripped(line) == Strip(line) \o <<NL>>

\* fout.write(line)
BodyChunk(line) == line

\* ------------------------------------------------------- write_missing_ids
NoMissingNever(ids) == FALSE

\* if not missing_ids: return None
NoMissing(ids) == ids = <<>>

\* "\n".join(missing_ids)
MissingFileContent(ids) == Join(ids, NL)

NoFile == [exists |-> FALSE, content |-> <<>>]

\* ------------------------------------------------------------------- Init
Init ==
    /\ pc = "start"
    /\ exit_status = -1
    /\ mapRead = <<>>
    /\ mapping_dict = EmptyDict
    /\ fastaRead = <<>>
    /\ fout = <<>>
    /\ tab = <<>>
    /\ missing_ids = <<>>
    /\ missing_file = NoFile
    /\ missing_path = "unset"

\* ---------------------------------------------------------------- actions
\* main(): the two is_file() checks, then the call of build_mapping_dict
MainStart ==
    /\ pc = "start"
    /\ \E mapping_is_file \in BOOLEAN, rvdb_is_file \in BOOLEAN :
          IF mapping_is_file /\ rvdb_is_file
          THEN /\ pc' = "load"
               /\ UNCHANGED exit_status
          ELSE /\ pc' = "aborted"
               /\ exit_status' = 1
    /\ UNCHANGED <<mapRead, mapping_dict, fastaRead, fout, tab, missing_ids,
                   missing_file, missing_path>>

\* one iteration of the loop over the mapping file
BuildMappingLine ==
    /\ pc = "load"
    /\ Len(mapRead) < MaxMapLines
    /\ \E line \in MapLines :
          LET fields == MappingFields(line)
          IN  /\ mapRead' = Append(mapRead, line)
              /\ IF IsMalformedRow(fields)
                 THEN UNCHANGED <<pc, exit_status, mapping_dict>>
                 ELSE IF UnpackFails(fields)
                 THEN /\ pc' = "aborted"
                      /\ exit_status' = 1
                      /\ UNCHANGED mapping_dict
                 ELSE /\ mapping_dict' = StoreEntry(mapping_dict, fields)
                      /\ UNCHANGED <<pc, exit_status>>
    /\ UNCHANGED <<fastaRead, fout, tab, missing_ids, missing_file, missing_path>>

\* end of the mapping file: return mapping_dict
BuildMappingReturn ==
    /\ pc = "load"
    /\ pc' = "loaded"
    /\ UNCHANGED <<exit_status, mapRead, mapping_dict, fastaRead, fout, tab,
                   missing_ids, missing_file, missing_path>>

\* process_rvdb_fasta up to the loop: the files are opened, the table header
\* is written; the mapping file is closed and its lines are gone
ProcessRvdbOpen ==
    /\ pc = "loaded"
    /\ pc' = "rewrite"
    /\ mapRead' = <<>>
    /\ tab' = <<TableHeader>>
    /\ fout' = <<>>
    /\ missing_ids' = <<>>
    /\ UNCHANGED <<exit_status, mapping_dict, fastaRead, missing_file, missing_path>>

\* one iteration of the loop over the FASTA file
ProcessRvdbLine ==
    /\ pc = "rewrite"
    /\ Len(fastaRead) < MaxFastaLines
    /\ \E line \in FastaLines :
          LET header == HeaderOf(line)
              fields == HeaderFields(header)
          IN  /\ fastaRead' = Append(fastaRead, line)
              /\ IF IsHeaderLine(line)
                 THEN IF NotExtractable(fields)
                      THEN /\ fout' = fout \o SkippedHeaderOut(line)
                           /\ UNCHANGED <<tab, missing_ids, mapping_dict>>
                      ELSE LET p_acc == fields[3]
                               r == Lookup(mapping_dict, p_acc)
                           IN  /\ mapping_dict' = r.dict
                               /\ IF r.found
                                  THEN /\ fout' = Append(fout, RenamedHeader(r.value[1], header))
                                       /\ tab' = Append(tab, TableRow(r.value[1], p_acc, r.value[2], r.value[3]))
                                       /\ UNCHANGED missing_ids
                                  ELSE /\ missing_ids' = RecordMiss(missing_ids, header)
                                       /\ UNCHANGED <<fout, tab>>
                 ELSE /\ fout' = Append(fout, BodyChunk(line))
                      /\ UNCHANGED <<tab, missing_ids, mapping_dict>>
    /\ UNCHANGED <<pc, exit_status, mapRead, missing_file, missing_path>>

\* end of the FASTA file: the three files are closed, the function returns
ProcessRvdbReturn ==
    /\ pc = "rewrite"
    /\ pc' = "rewritten"
    /\ UNCHANGED <<exit_status, mapRead, mapping_dict, fastaRead, fout, tab,
                   missing_ids, missing_file, missing_path>>

WriteMissingIds ==
    /\ pc = "rewritten"
    /\ pc' = "written"
    /\ IF NoMissing(missing_ids)
       THEN /\ missing_path' = "None"
            /\ UNCHANGED missing_file
       ELSE /\ missing_file' = [exists |-> TRUE,
                                content |-> MissingFileContent(missing_ids)]
            /\ missing_path' = "path"
    /\ UNCHANGED <<exit_status, mapRead, mapping_dict, fastaRead, fout, tab,
                   missing_ids>>

\* the summary is printed and main returns
MainFinish ==
    /\ pc = "written"
    /\ pc' = "done"
    /\ exit_status' = 0
    /\ UNCHANGED <<mapRead, mapping_dict, fastaRead, fout, tab, missing_ids,
                   missing_file, missing_path>>

Next ==
    \/ MainStart
    \/ BuildMappingLine
    \/ BuildMappingReturn
    \/ ProcessRvdbOpen
    \/ ProcessRvdbLine
    \/ ProcessRvdbReturn
    \/ WriteMissingIds
    \/ MainFinish

Spec == Init /\ [][Next]_vars

TypeOK ==
    /\ pc \in {"start", "load", "loaded", "rewrite", "rewritten", "written",
               "done", "aborted"}
    /\ exit_status \in {-1, 0, 1}
    /\ missing_path \in {"unset", "None", "path"}
    /\ Len(mapRead) <= MaxMapLines
    /\ Len(fastaRead) <= MaxFastaLines

\* ------------------------------------------------- vocabulary of the claims
LoadPhase == pc \in {"load", "loaded"}
RewritePhase == pc \in {"rewrite", "rewritten", "written", "done"}
AfterRewrite == pc \in {"rewritten", "written", "done"}

\* a header with at least 3 pipe-delimited fields
Extractable(line) == IsHeaderLine(line) /\ Len(HeaderFields(HeaderOf(line))) >= 3
KeyOf(line) == HeaderFields(HeaderOf(line))[3]
IsHitLine(line) == Extractable(line) /\ KeyOf(line) \in DOMAIN mapping_dict
IsMissLine(line) == Extractable(line) /\ KeyOf(line) \notin DOMAIN mapping_dict
IsBodyLine(line) == ~IsHeaderLine(line)

HitSet == {i \in DOMAIN fastaRead : IsHitLine(fastaRead[i])}
MissSet == {i \in DOMAIN fastaRead : IsMissLine(fastaRead[i])}
EmitSet == {i \in DOMAIN fastaRead : IsBodyLine(fastaRead[i]) \/ IsHitLine(fastaRead[i])}

\* the j-th smallest element of a set of line numbers
Nth(S, j) == CHOOSE i \in S : Cardinality({m \in S : m <= i}) = j
\* how many elements of S are <= i
CountUpTo(S, i) == Cardinality({m \in S : m <= i})

OutHeaders == SelectSeq(fout, IsHeaderLine)
DataRows == IF tab = <<>> THEN <<>> ELSE Tail(tab)
RowFields(row) == Split(SubSeq(row, 1, Len(row) - 1), TAB)
RowsWithKey(k) == {j \in DOMAIN DataRows : RowFields(DataRows[j])[2] = k}
LeadingToken(chunk) == Split(Drop1(chunk), SP)[1]

\* mapping rows the loader accepts: exactly 4 tab-separated fields
WellFormedRow(line) == Len(MappingFields(line)) = 4
WellFormedSet == {i \in DOMAIN mapRead : WellFormedRow(mapRead[i])}
RowKeyField(line) == MappingFields(line)[2]
RowTriple(line) == <<MappingFields(line)[1], MappingFields(line)[3], MappingFields(line)[4]>>
LastRowWithKey(k) ==
    CHOOSE i \in WellFormedSet :
        /\ RowKeyField(mapRead[i]) = k
        /\ \A j \in WellFormedSet : RowKeyField(mapRead[j]) = k => j <= i

\* --------------------------------------------------------------------- C1
\* C1 (as stated): after the load and the rewrite pass, every FASTA record
\* whose key is in the lookup table has a rewritten header whose leading
\* (blank-delimited) token is the canonical accession of that key, and
\* exactly one join-table row carries that key.
C1_JoinCorrectness_Original ==
    AfterRewrite =>
        /\ Len(OutHeaders) = Cardinality(HitSet)
        /\ \A i \in HitSet :
              LET k == KeyOf(fastaRead[i])
              IN  /\ LeadingToken(OutHeaders[CountUpTo(HitSet, i)]) = mapping_dict[k][1]
                  /\ Cardinality(RowsWithKey(k)) = 1

\* C1 (amended): after the load and the rewrite pass, every FASTA record
\* whose key is in the lookup table has the rewritten header
\* '>' + canonical accession + ' ' + original header text (so its leading
\* token is the canonical accession whenever that accession holds no blank),
\* and the join table holds one row with that key per such record: as many
\* rows carry the key as FASTA records do.
C1_JoinCorrectness ==
    AfterRewrite =>
        /\ Len(OutHeaders) = Cardinality(HitSet)
        /\ \A i \in HitSet :
              LET k == KeyOf(fastaRead[i])
                  acc == mapping_dict[k][1]
                  out == OutHeaders[CountUpTo(HitSet, i)]
              IN  /\ out = <<GT>> \o acc \o <<SP>> \o Drop1(RStrip(fastaRead[i])) \o <<NL>>
                  /\ (SP \notin Range(acc) => LeadingToken(out) = acc)
                  /\ Cardinality(RowsWithKey(k))
                        = Cardinality({j \in HitSet : KeyOf(fastaRead[j]) = k})

C1_Witness ==
    /\ pc = "done"
    /\ \E i \in HitSet, j \in HitSet :
          i < j /\ KeyOf(fastaRead[i]) = KeyOf(fastaRead[j])

\* --------------------------------------------------------------------- C2
\* C2: a mapping row whose field count is not exactly 4 is skipped, the run
\* does not abort, and every well-formed row still ends up in the table.
C2_MalformedRowsNeverFatal ==
    (\E i \in DOMAIN mapRead : ~WellFormedRow(mapRead[i])) =>
        /\ pc # "aborted"
        /\ \A j \in WellFormedSet : RowKeyField(mapRead[j]) \in DOMAIN mapping_dict

\* --------------------------------------------------------------------- C3
\* C3: after the rewrite pass a FASTA header is in the missing-id list iff
\* it has at least 3 pipe fields and its key is absent from the lookup
\* table; nothing else is in the list.
C3_MissListFidelity ==
    AfterRewrite =>
        /\ \A i \in DOMAIN fastaRead :
              IsHeaderLine(fastaRead[i]) =>
                 (HeaderOf(fastaRead[i]) \in Range(missing_ids)
                     <=> (i \in MissSet))
        /\ Range(missing_ids) \subseteq {HeaderOf(fastaRead[i]) : i \in MissSet}

C3_Witness ==
    /\ pc = "done"
    /\ MissSet # {}
    /\ HitSet # {}
    /\ \E i \in DOMAIN fastaRead :
          IsHeaderLine(fastaRead[i]) /\ ~Extractable(fastaRead[i])

\* --------------------------------------------------------------------- C4
\* C4: the table returned by build_mapping_dict maps every key of a
\* well-formed row to the (accession, taxid, gi) of the last such row read,
\* and has exactly the distinct keys of the well-formed rows as entries.
C4_LastWriteWins ==
    pc = "loaded" =>
        /\ DOMAIN mapping_dict = {RowKeyField(mapRead[i]) : i \in WellFormedSet}
        /\ \A k \in DOMAIN mapping_dict :
              mapping_dict[k] = RowTriple(mapRead[LastRowWithKey(k)])

C4_Witness ==
    /\ pc = "loaded"
    /\ \E i \in WellFormedSet, j \in WellFormedSet :
          /\ i < j
          /\ RowKeyField(mapRead[i]) = RowKeyField(mapRead[j])
          /\ RowTriple(mapRead[i]) # RowTriple(mapRead[j])

\* --------------------------------------------------------------------- C5
\* C5: at the end of a completed run the missing-id file exists iff a miss
\* was recorded; with no miss no path is returned, otherwise the file holds
\* the recorded identifiers one per line in recorded order.
C5_MissingArtifact ==
    pc = "done" =>
        /\ missing_file.exists <=> (missing_ids # <<>>)
        /\ (missing_ids = <<>>) => (missing_path = "None")
        /\ (missing_ids # <<>>) =>
              /\ missing_path = "path"
              /\ Split(missing_file.content, NL) = missing_ids

C5_Witness ==
    /\ pc = "done"
    /\ Len(missing_ids) >= 2
    /\ missing_file.exists

\* --------------------------------------------------------------------- C6
\* C6: the chunks of the rewritten FASTA, the data rows of the join table
\* and the missing list each follow the order of the input lines that
\* produced them.
C6_OrderPreservation ==
    RewritePhase =>
        /\ Len(fout) = Cardinality(EmitSet)
        /\ \A j \in DOMAIN fout :
              LET line == fastaRead[Nth(EmitSet, j)]
              IN  IF IsBodyLine(line)
                  THEN fout[j] = line
                  ELSE /\ IsHeaderLine(fout[j])
                       /\ SubSeq(fout[j], Len(fout[j]) - Len(HeaderOf(line)), Len(fout[j]) - 1)
                             = HeaderOf(line)
        /\ Len(DataRows) = Cardinality(HitSet)
        /\ \A j \in DOMAIN DataRows :
              LET k == KeyOf(fastaRead[Nth(HitSet, j)])
              IN  RowFields(DataRows[j])
                     = <<mapping_dict[k][1], k, mapping_dict[k][2], mapping_dict[k][3]>>
        /\ Len(missing_ids) = Cardinality(MissSet)
        /\ \A j \in DOMAIN missing_ids :
              missing_ids[j] = HeaderOf(fastaRead[Nth(MissSet, j)])

C6_Witness ==
    /\ pc = "done"
    /\ Len(missing_ids) >= 2
    /\ missing_ids[1] # missing_ids[2]
    /\ \E i \in DOMAIN fastaRead : IsBodyLine(fastaRead[i]) \/ IsHitLine(fastaRead[i])

\* --------------------------------------------------------------------- C7
\* C7: at every point of the rewrite pass and at its end, join-table data
\* rows plus missing-list entries equal the headers with an extractable key
\* processed so far, and each hit has one rewritten header and one row.
C7_ClassificationComplete ==
    RewritePhase =>
        /\ Len(DataRows) + Len(missing_ids)
              = Cardinality({i \in DOMAIN fastaRead : Extractable(fastaRead[i])})
        /\ Len(OutHeaders) = Len(DataRows)

C7_Witness ==
    /\ pc = "rewrite"
    /\ HitSet # {}
    /\ MissSet # {}

\* --------------------------------------------------------------------- C8
\* C8: the non-header lines of the rewritten FASTA are the non-header lines
\* of the input, unchanged and in order, also after a dropped header.
C8_BodyPassThrough ==
    SelectSeq(fout, IsBodyLine) = SelectSeq(fastaRead, IsBodyLine)

C8_Witness ==
    /\ pc = "done"
    /\ \E i \in DOMAIN fastaRead :
          /\ i < Len(fastaRead)
          /\ IsHeaderLine(fastaRead[i])
          /\ ~IsHitLine(fastaRead[i])
          /\ IsBodyLine(fastaRead[i + 1])
    /\ \E i \in DOMAIN fastaRead :
          IsBodyLine(fastaRead[i]) /\ Strip(fastaRead[i]) \o <<NL>> # fastaRead[i]

\* --------------------------------------------------------------------- C9
\* C9: a step that reads a header with fewer than 3 pipe fields writes
\* nothing to the rewritten FASTA, adds no join-table row and no missing
\* entry, does not abort, and leaves the pass ready for the next line.
C9_SkipNonExtractable ==
    [][ (/\ pc = "rewrite"
         /\ Len(fastaRead') = Len(fastaRead) + 1
         /\ IsHeaderLine(fastaRead'[Len(fastaRead')])
         /\ ~Extractable(fastaRead'[Len(fastaRead')]))
        => (/\ fout' = fout
            /\ tab' = tab
            /\ missing_ids' = missing_ids
            /\ pc' = "rewrite"
            /\ exit_status' = exit_status) ]_vars

C9_Witness ==
    /\ pc = "done"
    /\ \E i \in DOMAIN fastaRead :
          /\ i < Len(fastaRead)
          /\ IsHeaderLine(fastaRead[i])
          /\ ~Extractable(fastaRead[i])

\* -------------------------------------------------------------------- C10
\* C10: the rewrite pass never changes the lookup table, misses included.
C10_LookupImmutable ==
    [][ RewritePhase => mapping_dict' = mapping_dict ]_vars

C10_Witness ==
    /\ pc = "done"
    /\ Len(missing_ids) >= 2
    /\ missing_ids[1] = missing_ids[2]
====
